---- MODULE Spec2Model ----
(***************************************************************************)
(* A model of src/predict.py: the Cog predictor that calls the FlowTTS SSE *)
(* streaming API, collects the base64 PCM chunks of the stream, wraps them *)
(* in a WAV container and writes the container to the output file.         *)
(*                                                                          *)
(* Bytes are integers 0..255, byte strings are sequences of bytes, text    *)
(* strings that the code inspects character by character (the base64       *)
(* Audio field) are sequences of one-character strings, and messages of    *)
(* exceptions are sequences of tokens, a token standing for a substring    *)
(* the error handler can test for or copy.                                 *)
(***************************************************************************)
EXTENDS Integers, Sequences, FiniteSets, TLC

(***************************************************************************)
(* Bounds of the model and constants of the program.                       *)
(***************************************************************************)
\* the longest upstream event stream explored
MaxStreamLen == 3

\* src/predict.py:29
MAX_TEXT_LENGTH == 2000

(***************************************************************************)
(* Byte-string helpers.                                                     *)
(***************************************************************************)
RECURSIVE Join(_)
\* b"".join(chunks): the chunks concatenated in list order
Join(chunks) ==
    IF chunks = <<>> THEN <<>> ELSE Head(chunks) \o Join(Tail(chunks))

RECURSIVE Pow256(_)
Pow256(k) == IF k = 0 THEN 1 ELSE 256 * Pow256(k - 1)

\* struct.pack little-endian unsigned integer of k bytes
PackLE(n, k) == [i \in 1..k |-> (n \div Pow256(i - 1)) % 256]

(***************************************************************************)
(* base64.b64decode(s) with validate=False, as binascii.a2b_base64 does it: *)
(* characters outside the alphabet are discarded, a pad that completes a   *)
(* quad ends the decoding, and a quad left open at the end of the input is *)
(* an error (binascii.Error).                                              *)
(***************************************************************************)
B64Alphabet ==
    << "A","B","C","D","E","F","G","H","I","J","K","L","M","N","O","P",
       "Q","R","S","T","U","V","W","X","Y","Z","a","b","c","d","e","f",
       "g","h","i","j","k","l","m","n","o","p","q","r","s","t","u","v",
       "w","x","y","z","0","1","2","3","4","5","6","7","8","9","+","/" >>

\* the 6-bit value of an alphabet character, 64 for any other character
B64Value(c) ==
    IF \E i \in 1..Len(B64Alphabet) : B64Alphabet[i] = c
    THEN (CHOOSE i \in 1..Len(B64Alphabet) : B64Alphabet[i] = c) - 1
    ELSE 64

RECURSIVE B64Scan(_, _, _, _, _, _)
\* the decoding loop: position i of s, quad_pos, leftchar, pads, bytes so far
B64Scan(s, i, quad_pos, leftchar, pads, out) ==
    IF i > Len(s)
    THEN IF quad_pos = 0
         THEN [ok |-> TRUE, bytes |-> out, err |-> ""]
         ELSE IF quad_pos = 1
              THEN [ok |-> FALSE, bytes |-> <<>>, err |-> "Invalid base64-encoded string"]
              ELSE [ok |-> FALSE, bytes |-> <<>>, err |-> "Incorrect padding"]
    ELSE IF s[i] = "="
         THEN IF quad_pos >= 2 /\ quad_pos + pads + 1 >= 4
              THEN [ok |-> TRUE, bytes |-> out, err |-> ""]
              ELSE B64Scan(s, i + 1, quad_pos, leftchar,
                           IF quad_pos >= 2 THEN pads + 1 ELSE pads, out)
         ELSE LET v == B64Value(s[i]) IN
              IF v >= 64
              THEN B64Scan(s, i + 1, quad_pos, leftchar, pads, out)
              ELSE CASE quad_pos = 0 ->
                          B64Scan(s, i + 1, 1, v, 0, out)
                     [] quad_pos = 1 ->
                          B64Scan(s, i + 1, 2, v % 16, 0,
                                  Append(out, (leftchar * 4 + v \div 16) % 256))
                     [] quad_pos = 2 ->
                          B64Scan(s, i + 1, 3, v % 4, 0,
                                  Append(out, (leftchar * 16 + v \div 4) % 256))
                     [] OTHER ->
                          B64Scan(s, i + 1, 0, 0, 0,
                                  Append(out, (leftchar * 64 + v) % 256))

b64decode(s) == B64Scan(s, 1, 0, 0, 0, <<>>)

(***************************************************************************)
(* pcm_to_wav: what wave.open(buffer, "wb") writes for one writeframes     *)
(* call followed by close.                                                 *)
(***************************************************************************)
\* Wave_write._write_header: the 44-byte header for a declared data length
WaveHeader(datalength, sample_rate, channels, sample_width) ==
    <<82, 73, 70, 70>> \o PackLE(36 + datalength, 4) \o <<87, 65, 86, 69>>
    \o <<102, 109, 116, 32>> \o PackLE(16, 4) \o PackLE(1, 2)
    \o PackLE(channels, 2) \o PackLE(sample_rate, 4)
    \o PackLE(channels * sample_rate * sample_width, 4)
    \o PackLE(channels * sample_width, 2) \o PackLE(sample_width * 8, 2)
    \o <<100, 97, 116, 97>> \o PackLE(datalength, 4)

\* Wave_write._patchheader: the two size fields rewritten with the bytes written
PatchHeader(file, datawritten) ==
    [i \in 1..Len(file) |->
        IF i \in 5..8 THEN PackLE(36 + datawritten, 4)[i - 4]
        ELSE IF i \in 41..44 THEN PackLE(datawritten, 4)[i - 40]
        ELSE file[i]]

\* pcm_to_wav without the patch of the size fields when the writer is closed
pcm_to_wavNoPatch(pcm_data, sample_rate, channels, sample_width) ==
    LET nframes     == Len(pcm_data) \div (sample_width * channels)
        datalength  == nframes * channels * sample_width
    IN  WaveHeader(datalength, sample_rate, channels, sample_width) \o pcm_data

pcm_to_wav(pcm_data, sample_rate, channels, sample_width) ==
    LET nframes     == Len(pcm_data) \div (sample_width * channels)
        datalength  == nframes * channels * sample_width
        written     == WaveHeader(datalength, sample_rate, channels, sample_width)
                       \o pcm_data
        datawritten == Len(pcm_data)
    IN  IF datalength # datawritten THEN PatchHeader(written, datawritten)
        ELSE written

(***************************************************************************)
(* The raw items the upstream response can yield.  An item is described by *)
(* what the loop body can observe of it: its shape (a dict with a "data"   *)
(* entry or not, the entry a string or not), what json.loads makes of the  *)
(* data text, and for a JSON object its Type, Audio and IsEnd entries.     *)
(***************************************************************************)
\* one raw item; Audio is the text of the Audio entry, <<>> when it is absent
RawItem(shape, json, type, audio, isEnd) ==
    [shape |-> shape, json |-> json, Type |-> type, Audio |-> audio, IsEnd |-> isEnd]

\* an item whose data is the JSON object {"Type": type, "Audio": audio, "IsEnd": isEnd}
ObjectItem(type, audio, isEnd) == RawItem("data", "object", type, audio, isEnd)

NonDictItem      == RawItem("nondict", "none", "", <<>>, FALSE)
NoDataItem       == RawItem("nodata", "none", "", <<>>, FALSE)
NonStringData    == RawItem("datanonstr", "none", "", <<>>, FALSE)
InvalidJsonItem  == RawItem("data", "invalid", "", <<>>, FALSE)
JsonArrayItem    == RawItem("data", "array", "", <<>>, FALSE)
FrameA           == ObjectItem("audio", <<"Q", "Q", "=", "=">>, FALSE)
FrameB           == ObjectItem("audio", <<"Q", "g", "=", "=">>, FALSE)
BadPaddingFrame  == ObjectItem("audio", <<"Q", "U", "J">>, FALSE)
ZeroByteFrame    == ObjectItem("audio", <<"!", "!", "!", "!">>, FALSE)
EmptyAudioItem   == ObjectItem("audio", <<>>, FALSE)
TextItem         == ObjectItem("text", <<"Q", "Q", "=", "=">>, FALSE)
EndItem          == ObjectItem("end", <<>>, TRUE)
FinalFrame       == ObjectItem("audio", <<"Q", "U", "I", "=">>, TRUE)

RawItems ==
    { NonDictItem, NoDataItem, NonStringData, InvalidJsonItem, JsonArrayItem,
      FrameA, FrameB, BadPaddingFrame, ZeroByteFrame, EmptyAudioItem, TextItem,
      EndItem,
      FinalFrame }

(***************************************************************************)
(* Exceptions and the messages of upstream faults.                          *)
(***************************************************************************)
\* the credential values of the request
secret_id  == "AKID-secret-id-value"
secret_key == "secret-key-value"

Raised(type, msg) == [type |-> type, msg |-> msg]

\* str(e) of the faults the SDK call or the iteration of its response can raise
UpstreamFaults ==
    { <<"AuthFailure">>, <<"InvalidParameter">>, <<"RequestLimitExceeded">>,
      <<"timed out">>,
      <<"AuthFailure", secret_id>>, <<"InvalidParameter", secret_key>>,
      <<"timed out", secret_id>>,
      <<"InvalidParameter", "AuthFailure">>,
      <<"RequestLimitExceeded", "InvalidParameter">> }

\* marker in error_msg
Contains(msg, marker) == \E i \in 1..Len(msg) : msg[i] = marker

\* ClassifyKind testing the invalid-parameter marker before the others
ClassifyKindParamFirst(error_msg) ==
    IF Contains(error_msg, "InvalidParameter") THEN "InvalidParameter"
    ELSE IF Contains(error_msg, "AuthFailure") THEN "AuthFailure"
    ELSE IF Contains(error_msg, "RequestLimitExceeded") THEN "RateLimited"
    ELSE "UnknownUpstreamError"

\* the except handler of predict: the error raised for str(e) = error_msg
ClassifyKind(error_msg) ==
    IF Contains(error_msg, "AuthFailure") THEN "AuthFailure"
    ELSE IF Contains(error_msg, "InvalidParameter") THEN "InvalidParameter"
    ELSE IF Contains(error_msg, "RequestLimitExceeded") THEN "RateLimited"
    ELSE "UnknownUpstreamError"

ClassifyMessage(error_msg) ==
    IF Contains(error_msg, "AuthFailure")
    THEN <<"Authentication failed. Please check your SecretId, SecretKey, and SdkAppId.">>
    ELSE IF Contains(error_msg, "InvalidParameter")
    THEN <<"Invalid parameter: ">> \o error_msg
    ELSE IF Contains(error_msg, "RequestLimitExceeded")
    THEN <<"Rate limit exceeded. Please try again later.">>
    ELSE <<"TTS API error: ">> \o error_msg

(***************************************************************************)
(* The body of the stream loop for one raw item.                            *)
(***************************************************************************)
\* the exceptions the inner except clause catches
InnerCaught == {"JSONDecodeError", "KeyError"}

\* TryBlock with the decoded chunk put in front of the list instead of behind it
TryBlockPrepend(event, chunks) ==
    IF event.shape = "datanonstr"
    THEN [exc |-> Raised("AttributeError", <<"'NoneType' object has no attribute 'strip'">>),
          chunks |-> chunks, stop |-> FALSE]
    ELSE IF event.json = "invalid"
    THEN [exc |-> Raised("JSONDecodeError", <<"Expecting value">>),
          chunks |-> chunks, stop |-> FALSE]
    ELSE IF event.json # "object"
    THEN [exc |-> Raised("AttributeError", <<"'list' object has no attribute 'get'">>),
          chunks |-> chunks, stop |-> FALSE]
    ELSE LET isAudio == event.Type = "audio" /\ event.Audio # <<>>
             decoded == b64decode(event.Audio)
         IN  IF isAudio /\ ~decoded.ok
             THEN [exc |-> Raised("binascii.Error", <<decoded.err>>),
                   chunks |-> chunks, stop |-> FALSE]
             ELSE [exc |-> Raised("", <<>>),
                   chunks |-> IF isAudio THEN <<decoded.bytes>> \o chunks ELSE chunks,
                   stop |-> event.IsEnd]

\* TryBlock testing IsEnd before the audio: the chunk of an end event is not appended
TryBlockEndFirst(event, chunks) ==
    IF event.shape = "datanonstr"
    THEN [exc |-> Raised("AttributeError", <<"'NoneType' object has no attribute 'strip'">>),
          chunks |-> chunks, stop |-> FALSE]
    ELSE IF event.json = "invalid"
    THEN [exc |-> Raised("JSONDecodeError", <<"Expecting value">>),
          chunks |-> chunks, stop |-> FALSE]
    ELSE IF event.json # "object"
    THEN [exc |-> Raised("AttributeError", <<"'list' object has no attribute 'get'">>),
          chunks |-> chunks, stop |-> FALSE]
    ELSE IF event.IsEnd
    THEN [exc |-> Raised("", <<>>), chunks |-> chunks, stop |-> TRUE]
    ELSE LET isAudio == event.Type = "audio" /\ event.Audio # <<>>
             decoded == b64decode(event.Audio)
         IN  IF isAudio /\ ~decoded.ok
             THEN [exc |-> Raised("binascii.Error", <<decoded.err>>),
                   chunks |-> chunks, stop |-> FALSE]
             ELSE [exc |-> Raised("", <<>>),
                   chunks |-> IF isAudio THEN Append(chunks, decoded.bytes) ELSE chunks,
                   stop |-> FALSE]

\* the inner try block: [exc, chunks, stop], exc = "" when nothing is raised
TryBlock(event, chunks) ==
    IF event.shape = "datanonstr"
    THEN [exc |-> Raised("AttributeError", <<"'NoneType' object has no attribute 'strip'">>),
          chunks |-> chunks, stop |-> FALSE]
    ELSE IF event.json = "invalid"
    THEN [exc |-> Raised("JSONDecodeError", <<"Expecting value">>),
          chunks |-> chunks, stop |-> FALSE]
    ELSE IF event.json # "object"
    THEN [exc |-> Raised("AttributeError", <<"'list' object has no attribute 'get'">>),
          chunks |-> chunks, stop |-> FALSE]
    ELSE LET isAudio == event.Type = "audio" /\ event.Audio # <<>>
             decoded == b64decode(event.Audio)
         IN  IF isAudio /\ ~decoded.ok
             THEN [exc |-> Raised("binascii.Error", <<decoded.err>>),
                   chunks |-> chunks, stop |-> FALSE]
             ELSE [exc |-> Raised("", <<>>),
                   chunks |-> IF isAudio THEN Append(chunks, decoded.bytes) ELSE chunks,
                   stop |-> event.IsEnd]

\* LoopBody without the break on IsEnd: the loop goes on to the next item
LoopBodyNoBreak(event, chunks) ==
    IF ~(event.shape \in {"data", "datanonstr"})
    THEN [next |-> "continue", chunks |-> chunks, msg |-> <<>>]
    ELSE LET r == TryBlock(event, chunks) IN
         IF r.exc.type = "" \/ r.exc.type \in InnerCaught
         THEN [next |-> "continue", chunks |-> r.chunks, msg |-> <<>>]
         ELSE [next |-> "raise", chunks |-> r.chunks, msg |-> r.exc.msg]

\* one pass of the loop body: [next, chunks, msg] with next one of "continue",
\* "break" and "raise" (an exception leaves the loop with str(e) = msg)
LoopBody(event, chunks) ==
    IF ~(event.shape \in {"data", "datanonstr"})
    THEN [next |-> "continue", chunks |-> chunks, msg |-> <<>>]
    ELSE LET r == TryBlock(event, chunks) IN
         IF r.exc.type = ""
         THEN [next |-> IF r.stop THEN "break" ELSE "continue",
               chunks |-> r.chunks, msg |-> <<>>]
         ELSE IF r.exc.type \in InnerCaught
         THEN [next |-> "continue", chunks |-> r.chunks, msg |-> <<>>]
         ELSE [next |-> "raise", chunks |-> r.chunks, msg |-> r.exc.msg]

(***************************************************************************)
(* The state of one predict request.                                        *)
(***************************************************************************)
VARIABLES
    pc,            \* where predict is: "start", "client", "call", "loop",
                   \* "check", "convert", "write", "done"
    text,          \* the text input: its length and the length of text.strip()
    sample_rate,   \* the sample_rate input
    streamLen,     \* how many raw items the response yields before it is exhausted
    consumed,      \* the raw items pulled from the response so far, in order
    audio_chunks,  \* the list audio_chunks
    pcm_data,      \* the payload handed to pcm_to_wav
    wav_data,      \* what pcm_to_wav returned
    wavCalls,      \* number of calls of pcm_to_wav
    outFile,       \* the contents of the file at Path("/tmp/output.wav")
    writes,        \* number of writes of this request to the output file
    outcome,       \* "none" while running, "path" on return, else the error kind
    errMsg,        \* the message of the error raised to the caller
    error_msg,     \* str(e) in the except handler, <<>> when it did not run
    credBuilt,     \* credential.Credential(...) was built
    clientBuilt,   \* TrtcClient(...) was constructed
    sseCalls,      \* number of calls of client.TextToSpeechSSE
    released,      \* number of release (close) calls on the response object
    finalizedBy    \* how the stream loop ended: "none", "end" (break on IsEnd),
                   \* "exhausted", "callFault" (the SDK call raised), "streamFault"
                   \* (pulling an item raised), "eventFault" (the loop body raised)

vars == << pc, text, sample_rate, streamLen, consumed, audio_chunks, pcm_data, wav_data,
           wavCalls, outFile, writes, outcome, errMsg, error_msg, credBuilt, clientBuilt,
           sseCalls, released, finalizedBy >>

\* the text inputs explored: empty, only whitespace, a short text, one of the
\* greatest length allowed, an oversized one
Texts ==
    { [len |-> 0, stripped |-> 0], [len |-> 3, stripped |-> 0],
      [len |-> 4, stripped |-> 2],
      [len |-> MAX_TEXT_LENGTH, stripped |-> MAX_TEXT_LENGTH],
      [len |-> MAX_TEXT_LENGTH + 1, stripped |-> MAX_TEXT_LENGTH + 1] }

\* choices of the sample_rate input
SampleRates == {16000, 24000}

Init ==
    /\ pc = "start"
    /\ text \in Texts
    /\ sample_rate \in SampleRates
    /\ streamLen \in 0..MaxStreamLen
    /\ consumed = <<>>
    /\ audio_chunks = <<>>
    /\ pcm_data = <<>>
    /\ wav_data = <<>>
    /\ wavCalls = 0
    /\ outFile = <<>>
    /\ writes = 0
    /\ outcome = "none"
    /\ errMsg = <<>>
    /\ error_msg = <<>>
    /\ credBuilt = FALSE
    /\ clientBuilt = FALSE
    /\ sseCalls = 0
    /\ released = 0
    /\ finalizedBy = "none"

\* the except handler: predict ends with the classified error for str(e) = msg
RaiseClassified(msg, from) ==
    /\ pc' = "done"
    /\ outcome' = ClassifyKind(msg)
    /\ errMsg' = ClassifyMessage(msg)
    /\ error_msg' = msg
    /\ finalizedBy' = from

\* Validate with the credential object built before the text is checked
ValidateAfterCredential ==
    /\ pc = "start"
    /\ credBuilt' = TRUE
    /\ IF text.len = 0 \/ text.stripped = 0
       THEN /\ pc' = "done"
            /\ outcome' = "ValueError"
            /\ errMsg' = <<"Text cannot be empty">>
            /\ UNCHANGED error_msg
       ELSE IF text.len > MAX_TEXT_LENGTH
       THEN /\ pc' = "done"
            /\ outcome' = "ValueError"
            /\ errMsg' = <<"Text too long">>
            /\ UNCHANGED error_msg
       ELSE /\ pc' = "client"
            /\ UNCHANGED << outcome, errMsg, error_msg >>
    /\ UNCHANGED << text, sample_rate, streamLen, consumed, audio_chunks, pcm_data, wav_data,
                    wavCalls, outFile, writes, clientBuilt, sseCalls,
                    released, finalizedBy >>

\* input validation
Validate ==
    /\ pc = "start"
    /\ IF text.len = 0 \/ text.stripped = 0
       THEN /\ pc' = "done"
            /\ outcome' = "ValueError"
            /\ errMsg' = <<"Text cannot be empty">>
            /\ UNCHANGED error_msg
       ELSE IF text.len > MAX_TEXT_LENGTH
       THEN /\ pc' = "done"
            /\ outcome' = "ValueError"
            /\ errMsg' = <<"Text too long">>
            /\ UNCHANGED error_msg
       ELSE /\ pc' = "client"
            /\ UNCHANGED << outcome, errMsg, error_msg >>
    /\ UNCHANGED << text, sample_rate, streamLen, consumed, audio_chunks, pcm_data, wav_data,
                    wavCalls, outFile, writes, credBuilt, clientBuilt, sseCalls,
                    released, finalizedBy >>

\* the credential, the profiles, the client and the request are built
CreateClient ==
    /\ pc = "client"
    /\ credBuilt' = TRUE
    /\ clientBuilt' = TRUE
    /\ pc' = "call"
    /\ UNCHANGED << text, sample_rate, streamLen, consumed, audio_chunks, pcm_data, wav_data,
                    wavCalls, outFile, writes, outcome, errMsg, error_msg, sseCalls,
                    released, finalizedBy >>

\* resp = client.TextToSpeechSSE(req) returns the response
CallSSE ==
    /\ pc = "call"
    /\ sseCalls' = sseCalls + 1
    /\ audio_chunks' = <<>>
    /\ pc' = "loop"
    /\ UNCHANGED << text, sample_rate, streamLen, consumed, pcm_data, wav_data, wavCalls,
                    outFile, writes, outcome, errMsg, error_msg, credBuilt, clientBuilt,
                    released, finalizedBy >>

\* client.TextToSpeechSSE(req) raises
CallSSEFault ==
    /\ pc = "call"
    /\ sseCalls' = sseCalls + 1
    /\ audio_chunks' = <<>>
    /\ \E msg \in UpstreamFaults : RaiseClassified(msg, "callFault")
    /\ UNCHANGED << text, sample_rate, streamLen, consumed, pcm_data, wav_data, wavCalls,
                    outFile, writes, credBuilt, clientBuilt, released >>

\* NextEvent writing the chunks to the output file as they arrive
NextEventWriteThrough ==
    /\ pc = "loop"
    /\ Len(consumed) < streamLen
    /\ \E event \in RawItems :
          LET r == LoopBody(event, audio_chunks) IN
          /\ consumed' = Append(consumed, event)
          /\ audio_chunks' = r.chunks
          /\ outFile' = Join(r.chunks)
          /\ writes' = IF r.chunks # audio_chunks THEN writes + 1 ELSE writes
          /\ CASE r.next = "continue" ->
                    UNCHANGED << pc, outcome, errMsg, error_msg, finalizedBy >>
               [] r.next = "break" ->
                    /\ pc' = "check"
                    /\ finalizedBy' = "end"
                    /\ UNCHANGED << outcome, errMsg, error_msg >>
               [] OTHER -> RaiseClassified(r.msg, "eventFault")
    /\ UNCHANGED << text, sample_rate, streamLen, pcm_data, wav_data, wavCalls,
                    credBuilt, clientBuilt, sseCalls, released >>

\* the for statement pulls the next raw item and the loop body handles it
NextEvent ==
    /\ pc = "loop"
    /\ Len(consumed) < streamLen
    /\ \E event \in RawItems :
          LET r == LoopBody(event, audio_chunks) IN
          /\ consumed' = Append(consumed, event)
          /\ audio_chunks' = r.chunks
          /\ CASE r.next = "continue" ->
                    UNCHANGED << pc, outcome, errMsg, error_msg, finalizedBy >>
               [] r.next = "break" ->
                    /\ pc' = "check"
                    /\ finalizedBy' = "end"
                    /\ UNCHANGED << outcome, errMsg, error_msg >>
               [] OTHER -> RaiseClassified(r.msg, "eventFault")
    /\ UNCHANGED << text, sample_rate, streamLen, pcm_data, wav_data, wavCalls, outFile,
                    writes, credBuilt, clientBuilt, sseCalls, released >>

\* Exhausted treating a stream that ends without an end event as truncated
ExhaustedIsError ==
    /\ pc = "loop"
    /\ Len(consumed) = streamLen
    /\ pc' = "done"
    /\ finalizedBy' = "exhausted"
    /\ outcome' = "UnknownUpstreamError"
    /\ errMsg' = <<"TTS API error: ", "stream ended without IsEnd">>
    /\ UNCHANGED error_msg
    /\ UNCHANGED << text, sample_rate, streamLen, consumed, audio_chunks, pcm_data,
                    wav_data, wavCalls, outFile, writes, credBuilt, clientBuilt,
                    sseCalls, released >>

\* the response is exhausted: the for statement ends
Exhausted ==
    /\ pc = "loop"
    /\ Len(consumed) = streamLen
    /\ pc' = "check"
    /\ finalizedBy' = "exhausted"
    /\ UNCHANGED << text, sample_rate, streamLen, consumed, audio_chunks, pcm_data, wav_data,
                    wavCalls, outFile, writes, outcome, errMsg, error_msg, credBuilt,
                    clientBuilt, sseCalls, released >>

\* StreamFault with one retry of the upstream call before the fault is reported
StreamFaultRetry ==
    /\ pc = "loop"
    /\ IF sseCalls < 2
       THEN /\ pc' = "call"
            /\ UNCHANGED << outcome, errMsg, error_msg, finalizedBy >>
       ELSE \E msg \in UpstreamFaults : RaiseClassified(msg, "streamFault")
    /\ UNCHANGED << text, sample_rate, streamLen, consumed, audio_chunks, pcm_data, wav_data,
                    wavCalls, outFile, writes, credBuilt, clientBuilt, sseCalls,
                    released >>

\* pulling the next raw item raises (a transport fault while streaming)
StreamFault ==
    /\ pc = "loop"
    /\ \E msg \in UpstreamFaults : RaiseClassified(msg, "streamFault")
    /\ UNCHANGED << text, sample_rate, streamLen, consumed, audio_chunks, pcm_data, wav_data,
                    wavCalls, outFile, writes, credBuilt, clientBuilt, sseCalls,
                    released >>

\* CheckAudio going back to the stream loop when no audio has arrived yet
CheckAudioRepoll ==
    /\ pc = "check"
    /\ IF audio_chunks = <<>>
       THEN pc' = "loop"
       ELSE pc' = "convert"
    /\ UNCHANGED << text, sample_rate, streamLen, consumed, audio_chunks, pcm_data, wav_data,
                    wavCalls, outFile, writes, outcome, errMsg, error_msg, credBuilt,
                    clientBuilt, sseCalls, released, finalizedBy >>

\* if not audio_chunks: raise RuntimeError("No audio data received ...")
CheckAudio ==
    /\ pc = "check"
    /\ IF audio_chunks = <<>>
       THEN /\ pc' = "done"
            /\ outcome' = "EmptyAudio"
            /\ errMsg' = <<"No audio data received from upstream API. Please check your credentials and parameters.">>
            /\ UNCHANGED error_msg
       ELSE /\ pc' = "convert"
            /\ UNCHANGED << outcome, errMsg, error_msg >>
    /\ UNCHANGED << text, sample_rate, streamLen, consumed, audio_chunks, pcm_data, wav_data,
                    wavCalls, outFile, writes, credBuilt, clientBuilt, sseCalls,
                    released, finalizedBy >>

\* pcm_data = b"".join(audio_chunks); wav_data = pcm_to_wav(pcm_data, sample_rate)
ConvertPcm ==
    /\ pc = "convert"
    /\ pcm_data' = Join(audio_chunks)
    /\ wav_data' = pcm_to_wav(pcm_data', sample_rate, 1, 2)
    /\ wavCalls' = wavCalls + 1
    /\ pc' = "write"
    /\ UNCHANGED << text, sample_rate, streamLen, consumed, audio_chunks, outFile, writes,
                    outcome, errMsg, error_msg, credBuilt, clientBuilt, sseCalls, released,
                    finalizedBy >>

\* the container is written to /tmp/output.wav and the path is returned
WriteOutput ==
    /\ pc = "write"
    /\ outFile' = wav_data
    /\ writes' = writes + 1
    /\ outcome' = "path"
    /\ pc' = "done"
    /\ UNCHANGED << text, sample_rate, streamLen, consumed, audio_chunks, pcm_data, wav_data,
                    wavCalls, errMsg, error_msg, credBuilt, clientBuilt, sseCalls, released,
                    finalizedBy >>

Next ==
    \/ Validate
    \/ CreateClient
    \/ CallSSE
    \/ CallSSEFault
    \/ NextEvent
    \/ Exhausted
    \/ StreamFault
    \/ CheckAudio
    \/ ConvertPcm
    \/ WriteOutput

Spec == Init /\ [][Next]_vars

\* predict runs to its end: it is sequential code over a finite response, so a
\* step that can be taken is taken
FairSpec == Spec /\ WF_vars(Next)

(***************************************************************************)
(* A second predict request on the same host.  Every invocation writes its *)
(* container to the same fixed path, Path("/tmp/output.wav"); of the other *)
(* request only that write is visible to this one.                         *)
(***************************************************************************)
\* the payload and the sample rate of the other request
OtherRequests ==
    { [pcm |-> <<67>>, rate |-> 24000], [pcm |-> <<67, 68>>, rate |-> 16000] }

\* the other request reaches its own write to /tmp/output.wav
OtherRequestWrites ==
    /\ \E o \in OtherRequests :
          /\ outFile # pcm_to_wav(o.pcm, o.rate, 1, 2)
          /\ outFile' = pcm_to_wav(o.pcm, o.rate, 1, 2)
    /\ UNCHANGED << pc, text, sample_rate, streamLen, consumed, audio_chunks, pcm_data,
                    wav_data, wavCalls, writes, outcome, errMsg, error_msg, credBuilt,
                    clientBuilt, sseCalls, released, finalizedBy >>

NextHost ==
    \/ Next
    \/ OtherRequestWrites

SpecHost == Init /\ [][NextHost]_vars

(***************************************************************************)
(* Vocabulary of the properties: what the specification calls an audio     *)
(* frame, an end signal and an unparseable event, read off a raw item.     *)
(***************************************************************************)
\* the data of the item parsed to a JSON object
IsObject(e) == e.shape = "data" /\ e.json = "object"

\* an audio event: Type == "audio" with a non-empty Audio field
HasAudio(e) == IsObject(e) /\ e.Type = "audio" /\ e.Audio # <<>>

\* an audio event whose Audio field decodes
IsAudioFrame(e) == HasAudio(e) /\ b64decode(e.Audio).ok

\* an audio event whose Audio field does not decode
IsUndecodable(e) == HasAudio(e) /\ ~b64decode(e.Audio).ok

\* an event whose parsed object has a true IsEnd flag
IsEndEvent(e) == IsObject(e) /\ e.IsEnd

\* not a record with a data field, data that is not valid JSON, or data that
\* parses to something other than an object
IsMalformed(e) == ~IsObject(e)

RECURSIVE ExpectedFrames(_)
\* the decoded contents of the audio frames of items, in the order of items
ExpectedFrames(items) ==
    IF items = <<>> THEN <<>>
    ELSE IF IsAudioFrame(Head(items))
         THEN <<b64decode(Head(items).Audio).bytes>> \o ExpectedFrames(Tail(items))
         ELSE ExpectedFrames(Tail(items))

RECURSIVE Flatten(_)
Flatten(frames) ==
    IF frames = <<>> THEN <<>>
    ELSE LET n == Len(frames) IN Flatten(SubSeq(frames, 1, n - 1)) \o frames[n]

\* the payload the specification expects for the items consumed
ExpectedPayload(items) == Flatten(ExpectedFrames(items))

\* the items with the malformed ones removed
WithoutMalformed(items) == SelectSeq(items, LAMBDA e : ~IsMalformed(e))

\* predict ended with one of the errors of the except handler
UpstreamKinds == {"AuthFailure", "InvalidParameter", "RateLimited", "UnknownUpstreamError"}

\* the upstream call and the transport raised no fault in this run
NoUpstreamFault == finalizedBy \notin {"callFault", "streamFault"}

(***************************************************************************)
(* C1 - C5                                                                  *)
(***************************************************************************)
\* audio frames followed by an end event, and nothing else
FramesThenEnd(items) ==
    /\ Len(items) >= 2
    /\ \A i \in 1..(Len(items) - 1) : IsAudioFrame(items[i]) /\ ~items[i].IsEnd
    /\ IsEndEvent(items[Len(items)])
    /\ HasAudio(items[Len(items)]) => IsAudioFrame(items[Len(items)])

\* C1: order preservation. When the items consumed are audio frames followed by
\* an end event, pcm_to_wav is called once and the payload handed to it is the
\* concatenation of the decoded Audio contents in arrival order; the chunk list
\* holds each frame once, in arrival order.
C1_OrderPreservation ==
    FramesThenEnd(consumed) =>
        /\ audio_chunks = ExpectedFrames(consumed)
        /\ wavCalls >= 1 => pcm_data = ExpectedPayload(consumed)
        /\ pc = "done" => wavCalls = 1 /\ outcome = "path"

C1_Witness ==
    /\ pc = "done"
    /\ consumed = <<FrameA, FrameB, EndItem>>
    /\ pcm_data = <<65, 66>>
    /\ outcome = "path"

\* C2: malformed events never escalate. In a run without an upstream fault whose
\* items are malformed items, audio frames, non-audio objects and end events,
\* predict ends with the path or with EmptyAudio, and the payload is the payload
\* of the same items with the malformed ones removed.
C2_MalformedNeverEscalate ==
    (/\ pc = "done"
     /\ outcome # "ValueError"
     /\ NoUpstreamFault
     /\ \A i \in 1..Len(consumed) : ~IsUndecodable(consumed[i]))
    => /\ outcome \in {"path", "EmptyAudio"}
       /\ audio_chunks = ExpectedFrames(WithoutMalformed(consumed))
       /\ outcome = "path" => pcm_data = ExpectedPayload(WithoutMalformed(consumed))

\* C3: a base64 decode failure does not fail the request. After an audio event
\* whose Audio field does not decode has been consumed, and without an upstream
\* fault, the request has not ended in an error of the except handler and the
\* chunks accumulated are the frames decoded so far.
C3_DecodeFailureSkipped ==
    (/\ Len(consumed) > 0
     /\ IsUndecodable(consumed[Len(consumed)])
     /\ NoUpstreamFault)
    => /\ outcome \notin UpstreamKinds
       /\ audio_chunks = ExpectedFrames(consumed)

\* C4: the error message raised for an upstream fault contains neither the
\* SecretId value nor the SecretKey value.
C4_NoCredentialInMessage ==
    (pc = "done" /\ outcome \in UpstreamKinds)
    => ~Contains(errMsg, secret_id) /\ ~Contains(errMsg, secret_key)

\* C5: a container is only built from a non-empty payload. When the loop has
\* ended normally and the accumulated audio bytes have length 0, the request
\* ends with EmptyAudio, pcm_to_wav is not called and no file is written.
C5_NoContainerFromEmptyPayload ==
    (/\ finalizedBy \in {"end", "exhausted"}
     /\ Len(Flatten(audio_chunks)) = 0)
    => /\ wavCalls = 0
       /\ writes = 0
       /\ pc = "done" => outcome = "EmptyAudio"

(***************************************************************************)
(* C6 - C10                                                                 *)
(***************************************************************************)
\* C6: boundary. When the upstream call was made, neither it nor the transport
\* raised a fault and no item consumed is an audio event (so the sequence holds
\* zero audio frames), predict ends with EmptyAudio and produces no container.
C6_ZeroFramesGiveEmptyAudio ==
    (/\ pc = "done"
     /\ sseCalls = 1
     /\ NoUpstreamFault
     /\ \A i \in 1..Len(consumed) : ~HasAudio(consumed[i]))
    => /\ outcome = "EmptyAudio"
       /\ wavCalls = 0
       /\ writes = 0

\* C7: all-or-nothing output. A run that ends in an error has written nothing to
\* the output file; the file is written once, only after the stream loop ended
\* without a fault and the non-empty check passed, and then it holds the whole
\* container (the 44-byte header and the payload).
C7_AllOrNothing ==
    /\ outcome \notin {"none", "path"} => writes = 0 /\ outFile = <<>>
    /\ writes > 0 =>
          /\ writes = 1
          /\ finalizedBy \in {"end", "exhausted"}
          /\ audio_chunks # <<>>
          /\ outcome = "path"
          /\ outFile = wav_data
          /\ Len(outFile) = 44 + Len(pcm_data)
    /\ outcome = "path" => writes = 1

C7_Witness ==
    /\ pc = "done"
    /\ finalizedBy = "streamFault"
    /\ outcome \in UpstreamKinds
    /\ audio_chunks # <<>>
    /\ writes = 0

\* C8: no pull after the end event. An item whose parsed object has a true IsEnd
\* flag is always the last item consumed, the loop is left as soon as it has
\* been consumed, and the chunks hold no audio of a later item.
C8_NoPullAfterEnd ==
    /\ \A i \in 1..(Len(consumed) - 1) : ~IsEndEvent(consumed[i])
    /\ (Len(consumed) > 0 /\ IsEndEvent(consumed[Len(consumed)])) =>
          /\ pc # "loop"
          /\ finalizedBy \in {"end", "eventFault"}
    /\ finalizedBy = "end" =>
          /\ IsEndEvent(consumed[Len(consumed)])
          /\ audio_chunks = ExpectedFrames(consumed)

C8_Witness ==
    /\ pc = "done"
    /\ finalizedBy = "end"
    /\ Len(consumed) < streamLen
    /\ outcome = "path"

\* C9: release of the transport. Once the end event has been observed the
\* response object has been released exactly once, and it is never released
\* more than once.
C9_ReleasedOnceAfterEnd ==
    /\ finalizedBy = "end" => released = 1
    /\ released <= 1

\* C10: implicit completion. A run whose stream is exhausted without an end
\* event finalizes like a run whose last item is a bare end event: the chunks
\* are the audio frames consumed, in order, the payload is their concatenation,
\* zero frames give EmptyAudio and a non-empty payload gives the container.
C10_ImplicitCompletion ==
    (\/ finalizedBy = "exhausted"
     \/ finalizedBy = "end" /\ consumed[Len(consumed)] = EndItem)
    => /\ audio_chunks = ExpectedFrames(consumed)
       /\ wavCalls >= 1 => pcm_data = ExpectedPayload(consumed)
       /\ pc = "done" =>
             /\ outcome \in {"path", "EmptyAudio"}
             /\ ExpectedFrames(consumed) = <<>> => outcome = "EmptyAudio"
             /\ Len(ExpectedPayload(consumed)) > 0 =>
                   /\ outcome = "path"
                   /\ writes = 1
                   /\ Len(outFile) = 44 + Len(ExpectedPayload(consumed))

C10_Witness ==
    /\ pc = "done"
    /\ finalizedBy = "exhausted"
    /\ consumed = <<FrameA, FrameB>>
    /\ pcm_data = <<65, 66>>
    /\ outcome = "path"

(***************************************************************************)
(* C11 - C17                                                                *)
(***************************************************************************)
\* the except handler ran in this run
HandlerRan == finalizedBy \in {"callFault", "streamFault", "eventFault"}

\* the markers of the three keyword categories that the fault text contains
MarkersIn(msg) ==
    {m \in {"AuthFailure", "InvalidParameter", "RequestLimitExceeded"} : Contains(msg, m)}

\* C11 (as amended): classification is total with first-match precedence. Every
\* fault the handler sees yields exactly one kind, chosen in the order
\* authentication marker, invalid-parameter marker, rate-limit marker, otherwise
\* UnknownUpstreamError; a text with the authentication marker is AuthFailure
\* whatever other markers it contains.
C11_FirstMatchWins ==
    HandlerRan =>
        /\ pc = "done"
        /\ outcome \in UpstreamKinds
        /\ "AuthFailure" \in MarkersIn(error_msg) => outcome = "AuthFailure"
        /\ ("AuthFailure" \notin MarkersIn(error_msg)
            /\ "InvalidParameter" \in MarkersIn(error_msg)) => outcome = "InvalidParameter"
        /\ MarkersIn(error_msg) = {"RequestLimitExceeded"} => outcome = "RateLimited"
        /\ MarkersIn(error_msg) = {} => outcome = "UnknownUpstreamError"

C11_Witness ==
    /\ pc = "done"
    /\ error_msg = <<"InvalidParameter", "AuthFailure">>
    /\ outcome = "AuthFailure"

\* C11 (as claimed): first-match precedence, and no fault text matches the
\* marker of more than one category.
C11_MarkersMutuallyExclusive ==
    /\ C11_FirstMatchWins
    /\ HandlerRan => Cardinality(MarkersIn(error_msg)) <= 1

\* C12: requests share no mutable state. With another request running on the
\* same host, the bytes readable at the path returned to this request are the
\* container encoded from this request's own payload.
C12_OwnContainerAtReturnedPath ==
    outcome = "path" => outFile = pcm_to_wav(Flatten(audio_chunks), sample_rate, 1, 2)

RECURSIVE UnpackLE(_)
\* the unsigned integer a little-endian byte string encodes
UnpackLE(bytes) ==
    IF bytes = <<>> THEN 0 ELSE Head(bytes) + 256 * UnpackLE(Tail(bytes))

\* C13: container layout. For the payload of n bytes handed to pcm_to_wav (1
\* channel, sample width 2), odd n included, the container has 44 + n bytes, its
\* total-size field (bytes 4-7) is 36 + n, its data-size field is n and the
\* bytes after the 44-byte header are the payload.
C13_ContainerLayout ==
    wavCalls >= 1 =>
        LET n == Len(pcm_data) IN
        /\ Len(wav_data) = 44 + n
        /\ SubSeq(wav_data, 1, 4) = <<82, 73, 70, 70>>
        /\ UnpackLE(SubSeq(wav_data, 5, 8)) = 36 + n
        /\ SubSeq(wav_data, 9, 12) = <<87, 65, 86, 69>>
        /\ UnpackLE(SubSeq(wav_data, 23, 24)) = 1
        /\ UnpackLE(SubSeq(wav_data, 25, 28)) = sample_rate
        /\ UnpackLE(SubSeq(wav_data, 35, 36)) = 16
        /\ UnpackLE(SubSeq(wav_data, 41, 44)) = n
        /\ SubSeq(wav_data, 45, 44 + n) = pcm_data

C13_Witness ==
    /\ wavCalls = 1
    /\ pcm_data = <<65, 65, 66>>
    /\ UnpackLE(SubSeq(wav_data, 5, 8)) = 39

\* C14: one stream per request, no retry. client.TextToSpeechSSE is called at
\* most once; when the call or the iteration of its response has raised, the
\* request has ended with the classified error after that single call.
C14_SingleCallNoRetry ==
    /\ sseCalls <= 1
    /\ sseCalls = 1 => clientBuilt
    /\ HandlerRan =>
          /\ pc = "done"
          /\ sseCalls = 1
          /\ outcome \in UpstreamKinds

C14_Witness ==
    /\ pc = "done"
    /\ finalizedBy = "streamFault"
    /\ Len(consumed) >= 1
    /\ sseCalls = 1

\* the text is empty, only whitespace, or longer than MAX_TEXT_LENGTH
InvalidText == text.len = 0 \/ text.stripped = 0 \/ text.len > MAX_TEXT_LENGTH

\* C15: validation precedes any network interaction. For an invalid text predict
\* ends with the validation error and no credential is built, no client is
\* constructed and TextToSpeechSSE is never called; a text of at most
\* MAX_TEXT_LENGTH characters that is not blank passes validation.
C15_ValidationFirst ==
    /\ InvalidText =>
          /\ ~credBuilt /\ ~clientBuilt /\ sseCalls = 0
          /\ pc \in {"start", "done"}
          /\ pc = "done" => outcome = "ValueError"
    /\ outcome = "ValueError" => InvalidText /\ ~credBuilt /\ ~clientBuilt /\ sseCalls = 0
    /\ (credBuilt \/ clientBuilt \/ sseCalls > 0) => ~InvalidText /\ pc # "start"

C15_Witness ==
    /\ pc = "done"
    /\ outcome = "ValueError"
    /\ text.len > MAX_TEXT_LENGTH
    /\ ~credBuilt
    /\ sseCalls = 0

\* the outcome is settled exactly when predict has ended, and it is one outcome:
\* the path without an error message, or one error with its message
OneOutcome ==
    /\ (pc = "done") <=> (outcome # "none")
    /\ outcome \in {"none", "path", "ValueError", "EmptyAudio"} \cup UpstreamKinds
    /\ outcome = "path" => errMsg = <<>> /\ writes = 1
    /\ outcome \notin {"none", "path"} => errMsg # <<>> /\ writes = 0

\* the stream loop was left by the first end event or by exhaustion, as recorded
FinalizedConsistently ==
    /\ pc \in {"check", "convert", "write"} \/ outcome \in {"path", "EmptyAudio"}
          => finalizedBy \in {"end", "exhausted"}
    /\ finalizedBy = "end" => IsEndEvent(consumed[Len(consumed)])
    /\ finalizedBy = "exhausted" =>
          /\ Len(consumed) = streamLen
          /\ \A i \in 1..Len(consumed) : ~IsEndEvent(consumed[i])

\* C16: every request ends with exactly one outcome. predict reaches its end,
\* the outcome once settled never changes, and aggregation is finalized once, by
\* the first end event or by exhaustion of the response, never by both.
C16_TerminatesWithOneOutcome ==
    /\ [](OneOutcome /\ FinalizedConsistently)
    /\ [][outcome # "none" => outcome' = outcome]_vars
    /\ [][finalizedBy # "none" => finalizedBy' = finalizedBy]_vars
    /\ <>(pc = "done")

C16_Witness ==
    /\ pc = "done"
    /\ finalizedBy = "end"
    /\ outcome = "EmptyAudio"
    /\ Len(consumed) < streamLen

\* C17: the final frame is not lost. When the item that ends the stream is both
\* an audio frame and an end event, its decoded bytes are the last chunk
\* appended, the payload ends with them, and the request returns the path.
C17_FinalFrameKept ==
    (/\ finalizedBy = "end"
     /\ IsAudioFrame(consumed[Len(consumed)]))
    => LET last == b64decode(consumed[Len(consumed)].Audio).bytes IN
       /\ audio_chunks # <<>>
       /\ audio_chunks[Len(audio_chunks)] = last
       /\ Len(audio_chunks) = Len(ExpectedFrames(consumed))
       /\ wavCalls >= 1 =>
             SubSeq(pcm_data, Len(pcm_data) - Len(last) + 1, Len(pcm_data)) = last
       /\ pc = "done" => outcome = "path"

C17_Witness ==
    /\ pc = "done"
    /\ consumed = <<FrameA, FinalFrame>>
    /\ pcm_data = <<65, 65, 66>>
    /\ outcome = "path"

====
